---- MODULE Spec2Model ----
(***************************************************************************)
(* devlog: logging decorators (log_on_start, log_on_end, log_on_error),   *)
(* the Sensitive redaction proxy and the message formatting pipeline.     *)
(*                                                                         *)
(* A text (a Python str) is a sequence of tokens; a formatted message is a *)
(* sequence of segments, one per piece of the template, each remembering   *)
(* the placeholder it came from, so that the message text is the           *)
(* concatenation of the segments' tokens.                                  *)
(***************************************************************************)
EXTENDS Integers, Sequences, FiniteSets, TLC

Range(s) == {s[i] : i \in DOMAIN s}

(***************************************************************************)
(* Python values.  Every value is a record of the same shape:              *)
(*   t     the type name                                                   *)
(*   v     the payload tokens of an atom (the characters of a str, the     *)
(*         digits of an int, the name of a function)                       *)
(*   mask  the mask text of a Sensitive                                    *)
(*   items the elements of a container, the (key, value) pairs of a dict,  *)
(*         or the one real value held by a Sensitive                       *)
(***************************************************************************)
Atom(type, toks) == [t |-> type, v |-> toks, mask |-> <<>>, items |-> <<>>]
PyInt(digits) == Atom("int", <<digits>>)
PyStr(toks) == Atom("str", toks)
PyNone == Atom("NoneType", <<>>)
PyFunction(name) == Atom("function", <<name>>)
\* inspect.Parameter.empty, the "no default" marker class
ParameterEmpty == Atom("type", <<"<class 'inspect._empty'>">>)
PyTuple(xs) == [t |-> "tuple", v |-> <<>>, mask |-> <<>>, items |-> xs]
PyList(xs) == [t |-> "list", v |-> <<>>, mask |-> <<>>, items |-> xs]
Pair(k, val) == [t |-> "pair", v |-> <<k>>, mask |-> <<>>, items |-> <<val>>]
\* kw is a sequence of [k |-> name, val |-> value], in insertion order
PyDict(kw) == [t |-> "dict", v |-> <<>>, mask |-> <<>>,
               items |-> [i \in DOMAIN kw |-> Pair(kw[i].k, kw[i].val)]]

\* Sensitive.__init__(value, mask="***")
Sensitive(value, mask) == [t |-> "Sensitive", v |-> <<>>, mask |-> mask, items |-> <<value>>]
DefaultMask == <<"***">>
isSensitive(x) == x.t = "Sensitive"
real_value(s) == s.items[1]
mask(s) == s.mask

\* repr of a str: single quotes, double quotes when the text holds a single
\* quote and no double quote, the single quotes escaped otherwise
StrRepr(toks) ==
    IF "'" \in Range(toks) /\ "\"" \notin Range(toks)
    THEN <<"\"">> \o toks \o <<"\"">>
    ELSE <<"'">> \o [i \in DOMAIN toks |-> IF toks[i] = "'" THEN "\\'" ELSE toks[i]] \o <<"'">>

RECURSIVE repr(_)
RECURSIVE JoinRepr(_)
\* Sensitive.__repr__ delegates to the real value; the containers repr their elements
repr(x) ==
    CASE x.t = "str" -> StrRepr(x.v)
      [] x.t = "Sensitive" -> repr(real_value(x))
      [] x.t = "tuple" -> <<"(">> \o JoinRepr(x.items)
                          \o (IF Len(x.items) = 1 THEN <<",">> ELSE <<>>) \o <<")">>
      [] x.t = "list" -> <<"[">> \o JoinRepr(x.items) \o <<"]">>
      [] x.t = "dict" -> <<"{">> \o JoinRepr(x.items) \o <<"}">>
      [] x.t = "pair" -> StrRepr(x.v) \o <<": ">> \o repr(x.items[1])
      [] x.t = "NoneType" -> <<"None">>
      [] OTHER -> x.v
JoinRepr(xs) ==
    IF xs = <<>> THEN <<>>
    ELSE IF Len(xs) = 1 THEN repr(xs[1])
    ELSE repr(xs[1]) \o <<", ">> \o JoinRepr(Tail(xs))

\* Sensitive.__str__ delegates to the real value; str of a str is the str itself
RECURSIVE str(_)
str(x) ==
    CASE x.t = "str" -> x.v
      [] x.t = "Sensitive" -> str(real_value(x))
      [] OTHER -> repr(x)

\* unwrap_sensitive(value)
unwrap_sensitive(value) == IF isSensitive(value) THEN real_value(value) ELSE value

\* format_value(value, param_name="", sanitize_params=None): a str
format_value(value, param_name, sanitize_params) ==
    IF isSensitive(value) THEN PyStr(mask(value))
    ELSE IF sanitize_params # {} /\ param_name \in sanitize_params THEN PyStr(<<"***">>)
    ELSE PyStr(repr(value))

(***************************************************************************)
(* The operators of Python on plain values, and on a Sensitive.  The       *)
(* result of an operation is [ok, val, exc]: the value it gives, or the    *)
(* class of the exception it raises.                                       *)
(***************************************************************************)
Ok(value) == [ok |-> TRUE, val |-> value, exc |-> ""]
Err(cls) == [ok |-> FALSE, val |-> PyNone, exc |-> cls]
PyBool(b) == Atom("bool", <<IF b THEN "True" ELSE "False">>)
\* the ints of the scenarios and their digits
Ints == -9..9
IntText(n) ==
    IF n >= 0 THEN <<"0", "1", "2", "3", "4", "5", "6", "7", "8", "9">>[n + 1]
    ELSE <<"-1", "-2", "-3", "-4", "-5", "-6", "-7", "-8", "-9">>[-n]
PyIntOf(n) == PyInt(IntText(n))
IntOf(x) == CHOOSE n \in Ints : PyIntOf(n) = x
\* what a call of the function value returns
ReturnOf(f) == PyStr(<<"ok">>)

RECURSIVE ListLess(_, _)
\* list < list, the lists holding ints: the first difference decides
ListLess(a, b) ==
    IF b = <<>> THEN FALSE
    ELSE IF a = <<>> THEN TRUE
    ELSE IF a[1] # b[1] THEN IntOf(a[1]) < IntOf(b[1])
    ELSE ListLess(Tail(a), Tail(b))
Less(x, y) == IF x.t = "int" THEN IntOf(x) < IntOf(y) ELSE ListLess(x.items, y.items)
RECURSIVE Repeat(_, _)
Repeat(items, n) == IF n <= 0 THEN <<>> ELSE items \o Repeat(items, n - 1)

\* the operation on plain values; y is None for the operations of one operand
Builtin(op, x, y) ==
    CASE op = "eq" -> Ok(PyBool(x = y))
      [] op = "ne" -> Ok(PyBool(x # y))
      [] op \in {"lt", "le", "gt", "ge"} ->
            IF x.t = y.t /\ x.t \in {"int", "list"}
            THEN Ok(PyBool(CASE op = "lt" -> Less(x, y)
                             [] op = "le" -> ~Less(y, x)
                             [] op = "gt" -> Less(y, x)
                             [] op = "ge" -> ~Less(x, y)))
            ELSE Err("TypeError")
      [] op = "add" ->
            IF x.t = "int" /\ y.t = "int" THEN Ok(PyIntOf(IntOf(x) + IntOf(y)))
            ELSE IF x.t = "list" /\ y.t = "list" THEN Ok(PyList(x.items \o y.items))
            ELSE Err("TypeError")
      [] op = "mul" ->
            IF x.t = "int" /\ y.t = "int" THEN Ok(PyIntOf(IntOf(x) * IntOf(y)))
            ELSE IF x.t = "list" /\ y.t = "int" THEN Ok(PyList(Repeat(x.items, IntOf(y))))
            ELSE IF x.t = "int" /\ y.t = "list" THEN Ok(PyList(Repeat(y.items, IntOf(x))))
            ELSE Err("TypeError")
      [] op = "sub" ->
            IF x.t = "int" /\ y.t = "int" THEN Ok(PyIntOf(IntOf(x) - IntOf(y)))
            ELSE Err("TypeError")
      [] op = "floordiv" ->
            IF x.t = "int" /\ y.t = "int"
            THEN IF IntOf(y) = 0 THEN Err("ZeroDivisionError")
                 ELSE Ok(PyIntOf(IntOf(x) \div IntOf(y)))
            ELSE Err("TypeError")
      [] op = "neg" -> IF x.t = "int" THEN Ok(PyIntOf(-IntOf(x))) ELSE Err("TypeError")
      [] op = "len" -> IF x.t = "list" THEN Ok(PyIntOf(Len(x.items))) ELSE Err("TypeError")
      [] op = "contains" ->
            IF x.t = "list"
            THEN Ok(PyBool(\E i \in DOMAIN x.items :
                              unwrap_sensitive(x.items[i]) = unwrap_sensitive(y)))
            ELSE Err("TypeError")
      [] op = "getitem" ->
            IF x.t = "list" /\ y.t = "int"
            THEN LET i == IF IntOf(y) < 0 THEN IntOf(y) + Len(x.items) ELSE IntOf(y)
                 IN IF i + 1 \in DOMAIN x.items THEN Ok(x.items[i + 1]) ELSE Err("IndexError")
            ELSE Err("TypeError")
      [] op = "iter" -> IF x.t = "list" THEN Ok(PyTuple(x.items)) ELSE Err("TypeError")
      [] op = "hash" ->
            CASE x.t = "int" -> Ok(IF x = PyIntOf(-1) THEN PyIntOf(-2) ELSE x)
              [] x.t = "function" -> Ok(Atom("int", <<"id">> \o x.v))
              [] OTHER -> Err("TypeError")
      [] op = "call" -> IF x.t = "function" THEN Ok(ReturnOf(x)) ELSE Err("TypeError")

\* the special methods class Sensitive defines (ne comes with eq), and the
\* reflected ones among them; __getattr__ does not serve the lookup of a
\* special method, which goes through the type
SensitiveMethods ==
    {"len", "iter", "contains", "getitem", "eq", "ne", "hash",
     "lt", "le", "gt", "ge", "add", "mul", "call"}
SensitiveReflected == {"add", "mul"}
\* the comparison Python tries on the right operand when the left one gives up
Swapped(op) ==
    CASE op = "lt" -> "gt" [] op = "gt" -> "lt"
      [] op = "le" -> "ge" [] op = "ge" -> "le"
      [] OTHER -> op
Comparisons == {"eq", "ne", "lt", "le", "gt", "ge"}

\* the operation as Python evaluates it when an operand may be a Sensitive
Operation(op, x, y) ==
    IF isSensitive(x)
    THEN IF op \in {"contains", "getitem"}
         \* item in self._value, self._value[key]: the other operand as it came
         THEN IF isSensitive(y) /\ op = "getitem" THEN Err("TypeError")
              ELSE Builtin(op, real_value(x), y)
         ELSE IF op \in SensitiveMethods
         THEN Builtin(op, real_value(x), unwrap_sensitive(y))
         ELSE Err("TypeError")
    ELSE IF isSensitive(y)
    THEN CASE op \in SensitiveReflected -> Builtin(op, x, real_value(y))
           [] op \in Comparisons -> Builtin(Swapped(op), real_value(y), x)
           [] op = "contains" -> Builtin(op, x, y)
           [] OTHER -> Err("TypeError")
    ELSE Builtin(op, x, y)

(***************************************************************************)
(* Callables and their signatures (inspect.signature).                     *)
(***************************************************************************)
Param(name, kind, default) == [name |-> name, kind |-> kind, default |-> default]
NamedParams(fn) == SelectSeq(fn.params, LAMBDA p : p.kind = "POSITIONAL_OR_KEYWORD")
HasKind(fn, kind) == \E i \in DOMAIN fn.params : fn.params[i].kind = kind
KeysOf(kw) == {kw[i].k : i \in DOMAIN kw}
ValueOf(kw, name) == kw[CHOOSE i \in DOMAIN kw : kw[i].k = name].val
IndexOfParam(ps, name) == CHOOSE i \in DOMAIN ps : ps[i].name = name

\* Signature.bind(*args, **kwargs): the TypeError cases
BindFails(fn, args, kwargs) ==
    LET named == NamedParams(fn)
        names == {named[i].name : i \in DOMAIN named}
    IN \/ Len(args) > Len(named) /\ ~HasKind(fn, "VAR_POSITIONAL")
       \/ \E i \in DOMAIN named : i <= Len(args) /\ named[i].name \in KeysOf(kwargs)
       \/ \E k \in KeysOf(kwargs) : k \notin names /\ ~HasKind(fn, "VAR_KEYWORD")
       \/ \E i \in DOMAIN named : /\ i > Len(args)
                                  /\ named[i].name \notin KeysOf(kwargs)
                                  /\ named[i].default = ParameterEmpty

\* BoundArguments.arguments.get(param_name, param_object.default) of one parameter:
\* a var-positional or var-keyword parameter that collected nothing is not among
\* the arguments, and its default is Parameter.empty
BoundValue(fn, p, args, kwargs) ==
    LET named == NamedParams(fn)
        names == {named[i].name : i \in DOMAIN named}
    IN CASE p.kind = "VAR_POSITIONAL" ->
               IF Len(args) > Len(named)
               THEN PyTuple(SubSeq(args, Len(named) + 1, Len(args)))
               ELSE p.default
         [] p.kind = "VAR_KEYWORD" ->
               LET rest == SelectSeq(kwargs, LAMBDA e : e.k \notin names)
               IN IF rest # <<>> THEN PyDict(rest) ELSE p.default
         [] OTHER ->
               LET i == IndexOfParam(named, p.name)
               IN IF i <= Len(args) THEN args[i]
                  ELSE IF p.name \in KeysOf(kwargs) THEN ValueOf(kwargs, p.name)
                  ELSE p.default

\* LoggingDecorator.bind_param(fn, *args, **kwargs): the dict parameter -> value,
\* as the sequence of its items; ok is FALSE when bind raises TypeError
bind_param(fn, args, kwargs) ==
    IF BindFails(fn, args, kwargs)
    THEN [ok |-> FALSE, items |-> <<>>]
    ELSE [ok |-> TRUE,
          items |-> [i \in DOMAIN fn.params |->
                        [k |-> fn.params[i].name,
                         val |-> BoundValue(fn, fn.params[i], args, kwargs)]]]

(***************************************************************************)
(* Message templates: str.format with named fields.                        *)
(***************************************************************************)
Literal(tok) == [ph |-> FALSE, s |-> tok, attr |-> ""]
Field(name) == [ph |-> TRUE, s |-> name, attr |-> ""]
FieldAttr(name, attr) == [ph |-> TRUE, s |-> name, attr |-> attr]
Segment(field, text) == [field |-> field, text |-> text]

\* message.format(**format_kwargs): KeyError when a field is not supplied
TemplateFields(message) == {message[i].s : i \in {j \in DOMAIN message : message[j].ph}}
FormatFails(message, format_kwargs) ==
    \E name \in TemplateFields(message) : name \notin DOMAIN format_kwargs
FormatPiece(piece, format_kwargs) ==
    IF ~piece.ph THEN Segment("", <<piece.s>>)
    ELSE IF piece.attr = "__name__" THEN Segment(piece.s, format_kwargs[piece.s].v)
    ELSE Segment(piece.s, str(format_kwargs[piece.s]))
str_format(message, format_kwargs) ==
    [i \in DOMAIN message |-> FormatPiece(message[i], format_kwargs)]

RECURSIVE Flatten(_)
\* the text of a formatted message
Flatten(segs) == IF segs = <<>> THEN <<>> ELSE Head(segs).text \o Flatten(Tail(segs))

\* dict.update: the entries of new replace those of old
DictOf(kw) == [name \in KeysOf(kw) |-> ValueOf(kw, name)]

\* LoggingDecorator._sanitize_bound_params
sanitize_bound_params(self, bound_params) ==
    [i \in DOMAIN bound_params |->
        [k |-> bound_params[i].k,
         val |-> format_value(bound_params[i].val, bound_params[i].k, self.sanitize_params)]]

\* LoggingDecorator.build_msg(fn, fn_args, fn_kwargs, **extra):
\* [ok, exc, msg]; exc names the exception class raised when ok is FALSE
BuildArgsKwargs(self, fn_args, fn_kwargs) ==
    LET sanitized_args ==
            IF self.sanitize_params # {} \/ \E i \in DOMAIN fn_args : isSensitive(fn_args[i])
            THEN PyTuple([i \in DOMAIN fn_args |->
                             format_value(fn_args[i], "", self.sanitize_params)])
            ELSE PyTuple(fn_args)
        sanitized_kwargs ==
            IF self.sanitize_params # {} \/ \E i \in DOMAIN fn_kwargs : isSensitive(fn_kwargs[i].val)
            THEN PyDict([i \in DOMAIN fn_kwargs |->
                            [k |-> fn_kwargs[i].k,
                             val |-> format_value(fn_kwargs[i].val, fn_kwargs[i].k,
                                                  self.sanitize_params)]])
            ELSE PyDict(fn_kwargs)
    IN ("args" :> sanitized_args) @@ ("kwargs" :> sanitized_kwargs)

BuildBound(self, bound) ==
    IF self.sanitize_params # {} \/ \E i \in DOMAIN bound : isSensitive(bound[i].val)
    THEN DictOf(sanitize_bound_params(self, bound))
    ELSE DictOf(bound)

build_msg(self, fn, fn_args, fn_kwargs, extra) ==
    LET bound == bind_param(fn, fn_args, fn_kwargs)
    IN IF ~self.args_kwargs /\ ~bound.ok
       THEN [ok |-> FALSE, exc |-> "TypeError", msg |-> <<>>]
       ELSE LET format_kwargs ==
                    IF self.args_kwargs
                    THEN BuildArgsKwargs(self, fn_args, fn_kwargs) @@ extra
                    ELSE BuildBound(self, bound.items) @@ extra
            IN IF FormatFails(self.message, format_kwargs)
               THEN [ok |-> FALSE, exc |-> "KeyError", msg |-> <<>>]
               ELSE [ok |-> TRUE, exc |-> "",
                     msg |-> str_format(self.message, format_kwargs)]

\* LoggingDecorator._unwrap_args(args, kwargs); no executor calls it
unwrap_args(args, kwargs) ==
    [args |-> [i \in DOMAIN args |-> unwrap_sensitive(args[i])],
     kwargs |-> [i \in DOMAIN kwargs |->
                    [k |-> kwargs[i].k, val |-> unwrap_sensitive(kwargs[i].val)]]]

\* LoggingDecorator._has_sensitive(args, kwargs); no caller
has_sensitive(args, kwargs) ==
    \/ \E i \in DOMAIN args : isSensitive(args[i])
    \/ \E i \in DOMAIN kwargs : isSensitive(kwargs[i].val)

(***************************************************************************)
(* Exceptions: the classes and their bases.                                *)
(***************************************************************************)
Mro(cls) ==
    CASE cls = "BaseException" -> {"BaseException"}
      [] cls = "Exception" -> {"Exception", "BaseException"}
      [] cls = "CancelledError" -> {"CancelledError", "BaseException"}
      [] OTHER -> {cls, "Exception", "BaseException"}
\* issubclass(cls, classinfo), classinfo a class or a tuple of classes
issubclass(cls, classinfo) == Mro(cls) \cap classinfo # {}

(***************************************************************************)
(* The decorators.  An optional constructor argument is [given, value];    *)
(* given = FALSE is None.                                                  *)
(***************************************************************************)
Some(x) == [given |-> TRUE, value |-> x]
None(empty) == [given |-> FALSE, value |-> empty]

INFO == 20
ERROR == 40

\* LoggingDecorator.__init__ defaults of the format variables
callable_format_variable == "callable"
result_format_variable == "result"
exception_format_variable == "error"

\* the message of LogOnStart.__init__ when message is None
LogOnStart_default_message ==
    <<Literal("Start func "), FieldAttr(callable_format_variable, "__name__"),
      Literal(" with args "), Field("args"), Literal(", kwargs "), Field("kwargs")>>
\* the message of LogOnEnd.__init__ when message is None
LogOnEnd_default_message ==
    <<Literal("Successfully run func "), FieldAttr(callable_format_variable, "__name__"),
      Literal(" with args "), Field("args"), Literal(", kwargs "), Field("kwargs")>>
\* the message of LogOnError.__init__ when message is None
LogOnError_default_message ==
    <<Literal("Error in func "), FieldAttr(callable_format_variable, "__name__"),
      Literal(" with args "), Field("args"), Literal(", kwargs "), Field("kwargs"),
      Literal("\n"), Field(exception_format_variable), Literal(".")>>

\* LoggingDecorator.__init__ and the subclasses' __init__: the instance.  Every
\* instance carries the same fields; on_exceptions and reraise are read by
\* LogOnError only.  The constructors below take the message, the binding mode,
\* the deny-list (and the filter and the flag of LogOnError); the logger is the
\* one the caller gives (logger=L), no handler, and the trace options are off.
\* WithSink and WithTrace give the instance built with other keyword arguments.
\* LoggingDecorator(log_level, message): the base class used as a decorator; it
\* has the executors of WrapCallback and logs nothing
LoggingDecorator(message, args_kwargs, sanitize_params) ==
    [kind |-> "LoggingDecorator", log_level |-> INFO,
     message |-> message.value,
     args_kwargs |-> args_kwargs, sanitize_params |-> sanitize_params,
     on_exceptions |-> {}, reraise |-> TRUE,
     logger |-> Some("mocked"), handler |-> None(""),
     trace_stack |-> FALSE, capture_locals |-> FALSE, include_decorator |-> FALSE]
LogOnStart(message, args_kwargs, sanitize_params) ==
    [kind |-> "LogOnStart", log_level |-> INFO,
     message |-> IF message.given THEN message.value ELSE LogOnStart_default_message,
     args_kwargs |-> args_kwargs, sanitize_params |-> sanitize_params,
     on_exceptions |-> {}, reraise |-> TRUE,
     logger |-> Some("mocked"), handler |-> None(""),
     trace_stack |-> FALSE, capture_locals |-> FALSE, include_decorator |-> FALSE]
LogOnEnd(message, args_kwargs, sanitize_params) ==
    [kind |-> "LogOnEnd", log_level |-> INFO,
     message |-> IF message.given THEN message.value ELSE LogOnEnd_default_message,
     args_kwargs |-> args_kwargs, sanitize_params |-> sanitize_params,
     on_exceptions |-> {}, reraise |-> TRUE,
     logger |-> Some("mocked"), handler |-> None(""),
     trace_stack |-> FALSE, capture_locals |-> FALSE, include_decorator |-> FALSE]
LogOnError(message, on_exceptions, reraise, args_kwargs, sanitize_params) ==
    [kind |-> "LogOnError", log_level |-> ERROR,
     message |-> IF message.given THEN message.value ELSE LogOnError_default_message,
     args_kwargs |-> args_kwargs, sanitize_params |-> sanitize_params,
     on_exceptions |-> IF on_exceptions.given THEN on_exceptions.value ELSE {"BaseException"},
     reraise |-> reraise,
     logger |-> Some("mocked"), handler |-> None(""),
     trace_stack |-> FALSE, capture_locals |-> FALSE, include_decorator |-> FALSE]

\* variant(..., logger=logger, handler=handler): both given, the handler is
\* ignored
WithSink(decorator, logger, handler) ==
    [decorator EXCEPT !.logger = logger,
                      !.handler = IF logger.given /\ handler.given THEN None("") ELSE handler]
\* variant(..., trace_stack=, capture_locals=, include_decorator=):
\* capture_locals turns trace_stack on, and in LogOnError trace_stack turns
\* capture_locals on
WithTrace(decorator, trace_stack, capture_locals, include_decorator) ==
    [decorator EXCEPT
        !.trace_stack = trace_stack \/ capture_locals,
        !.capture_locals = IF decorator.kind = "LogOnError"
                           THEN (trace_stack \/ capture_locals) \/ capture_locals
                           ELSE capture_locals,
        !.include_decorator = include_decorator]

(***************************************************************************)
(* The wrapped functions of the scenarios.  body says what the function    *)
(* does once its arguments are bound:                                      *)
(*   return_first   returns its first positional argument (None without)   *)
(*   return_ok      returns the str 'ok'                                   *)
(*   raise          raises a new instance of class raises                  *)
(*   raise_stored   raises one instance kept by the module, the same       *)
(*                  instance at every call                                 *)
(***************************************************************************)
Function(name, params, is_async, body, raises) ==
    [name |-> name, params |-> params, is_async |-> is_async, body |-> body, raises |-> raises]
\* fn.__module__
ModuleOf(f) == "test_generic"
\* def f(a, b=2)
Params_ab == <<Param("a", "POSITIONAL_OR_KEYWORD", ParameterEmpty),
               Param("b", "POSITIONAL_OR_KEYWORD", PyInt("2"))>>
\* def f(*args, **kwargs)
Params_var == <<Param("args", "VAR_POSITIONAL", ParameterEmpty),
                Param("kwargs", "VAR_KEYWORD", ParameterEmpty)>>

(***************************************************************************)
(* Bounds and the scenarios.                                               *)
(***************************************************************************)
\* the deepest stack of decorators around one function
MaxDepth == 3
\* the number of times the caller invokes the wrapped callable
MaxInvocations == 2
\* the most decorators around one function that choose among the same logger
\* and handler
MaxSharing == 2
\* the most threads calling the wrapped callable at once
MaxThreads == 2

Secret == PyStr(<<"hunter2">>)
Template_nope == <<Literal("m "), Field("nope")>>
Template_args == <<Literal("Start "), Field("args"), Literal(" "), Field("kwargs")>>
Template_ab == <<Literal("a = "), Field("a"), Literal(", b = "), Field("b")>>
Template_result == <<Literal("r = "), Field(result_format_variable)>>

\* nested decorators: log_on_error with and without a filter, a reraise flag and
\* a message, log_on_end with its default message and with a message that
\* shows the result, log_on_start with its defaults, the bare LoggingDecorator
NestLayers ==
    {LogOnError(m, k, r, TRUE, {}) :
        m \in {None(<<>>), Some(Template_nope)},
        k \in {None({}), Some({"ValueError"})},
        r \in BOOLEAN}
    \cup {LogOnEnd(None(<<>>), TRUE, {}), LogOnEnd(Some(Template_result), TRUE, {}),
          LogOnStart(None(<<>>), TRUE, {}), LoggingDecorator(Some(<<>>), TRUE, {})}
NestFunctions ==
    {Function("f", Params_ab, FALSE, "raise", "ValueError"),
     Function("f", Params_ab, FALSE, "raise", "TypeError"),
     Function("f", Params_ab, FALSE, "raise_stored", "ValueError"),
     Function("f", Params_ab, FALSE, "return_ok", "")}
NestStacks == UNION {[1..n -> NestLayers] : n \in 1..MaxDepth}

\* one decorator of any variant, binding mode, deny-list and message;
\* log_on_error with on_exceptions unset and with on_exceptions=()
MsgMessages == {None(<<>>), Some(Template_args), Some(Template_ab), Some(Template_result)}
MsgLayers ==
    {LogOnStart(m, ak, sp) : m \in MsgMessages, ak \in BOOLEAN, sp \in {{}, {"b"}}}
    \cup {LogOnEnd(m, ak, sp) : m \in MsgMessages, ak \in BOOLEAN, sp \in {{}, {"b"}}}
    \cup {LogOnError(m, k, r, ak, sp) :
            m \in MsgMessages, k \in {None({}), Some({})},
            r \in BOOLEAN, ak \in BOOLEAN, sp \in {{}, {"b"}}}
MsgFunctions ==
    {Function("f", Params_ab, is_async, body, "ValueError") :
        is_async \in BOOLEAN, body \in {"return_first", "raise"}}
    \cup {Function("f", Params_var, FALSE, "return_first", ""),
          Function("f", Params_ab, TRUE, "raise", "CancelledError")}
\* decorators with every choice of logger and handler, alone or two around one
\* function
SinkLayers ==
    {WithSink(d, l, h) :
        d \in {LogOnStart(None(<<>>), TRUE, {}), LogOnEnd(None(<<>>), TRUE, {}),
               LogOnError(None(<<>>), None({}), TRUE, TRUE, {})},
        l \in {None(""), Some("mocked")},
        h \in {None(""), Some("log_handler")}}
SinkStacks == UNION {[1..n -> SinkLayers] : n \in 1..MaxSharing}
SinkFunctions ==
    {Function("f", Params_ab, FALSE, "raise", "ValueError"),
     Function("f", Params_ab, FALSE, "return_ok", "")}
\* one decorator of any variant with every choice of the trace options
TraceLayers ==
    {WithTrace(d, ts, cl, inc) :
        d \in {LogOnStart(None(<<>>), TRUE, {}), LogOnEnd(None(<<>>), TRUE, {}),
               LogOnError(None(<<>>), None({}), TRUE, TRUE, {})},
        ts \in BOOLEAN, cl \in BOOLEAN, inc \in BOOLEAN}
\* the calls: [args, kwargs]
Call(a, kw) == [args |-> a, kwargs |-> kw]
MsgCalls ==
    {Call(<<PyInt("1")>>, <<>>),
     Call(<<PyInt("1"), PyStr(<<"s3">>)>>, <<>>),
     Call(<<PyInt("1")>>, <<[k |-> "b", val |-> PyStr(<<"s3">>)]>>),
     Call(<<Sensitive(Secret, DefaultMask)>>, <<>>),
     Call(<<PyInt("1")>>, <<[k |-> "b", val |-> Sensitive(Secret, <<"XXXX">>)]>>),
     Call(<<PyList(<<Sensitive(Secret, DefaultMask)>>)>>, <<>>),
     Call(<<>>, <<>>)}

(***************************************************************************)
(* The state: one wrapped callable and the caller invoking it.             *)
(***************************************************************************)
VARIABLES
    stack,       \* the decorators around fn, innermost first
    fn,          \* the decorated function
    args,        \* the positional arguments of the caller's call
    kwargs,      \* its keyword arguments
    pc,          \* "ready", "calling" (on the way in), "returning", "done"
    depth,       \* the decorator reached (0: the function itself)
    outcome,     \* what the callee gave: a value or an exception
    received,    \* what the function was called with
    raised,      \* the exception instance the function raised in this invocation (0: none)
    emitted,     \* the records logged so far
    exceptions,  \* the exception instances so far, by identity: class and reraised
    _logger,     \* the _logger field of each decorator of the stack
    handlers,    \* the handlers attached to each logger, by logger name
    evaluated,   \* the library call the caller evaluated outside a wrapped call
    threads,     \* the threads calling the wrapped callable at once: each one's
                 \* position, the logger get_logger gave it, what its call gave
    invocation   \* the number of the caller's invocation
vars == <<stack, fn, args, kwargs, pc, depth, outcome, received, raised, emitted,
          exceptions, _logger, handlers, evaluated, threads, invocation>>

NoOutcome == [kind |-> "none", value |-> PyNone, exc |-> 0]
Returned(value) == [kind |-> "value", value |-> value, exc |-> 0]
Raised(e) == [kind |-> "exception", value |-> PyNone, exc |-> e]
NotCalled == [called |-> FALSE, args |-> <<>>, kwargs |-> <<>>]

\* the loggers of the logging module: the one the caller made and the one of
\* the function's module
LoggerNames == {"mocked", ModuleOf(fn)}

InitFor(stacks, functions, calls) ==
    /\ stack \in stacks
    /\ fn \in functions
    /\ \E c \in calls : args = c.args /\ kwargs = c.kwargs
    /\ pc = "ready"
    /\ depth = 0
    /\ outcome = NoOutcome
    /\ received = NotCalled
    /\ raised = 0
    /\ emitted = <<>>
    /\ exceptions = IF fn.body = "raise_stored"
                    THEN <<[cls |-> fn.raises, reraised |-> FALSE, raised_in |-> 0]>>
                    ELSE <<>>
    /\ invocation = 0
    /\ _logger = [d \in DOMAIN stack |-> stack[d].logger]
    \* the caller attached its handler to the logger it made
    /\ handlers = [n \in LoggerNames |-> IF n = "mocked" THEN <<"log_handler">> ELSE <<>>]

\* a library call: the operation, its operands, whether it was evaluated, its
\* result, and what it did to the function and the log
Evaluation(op, operands) ==
    [op |-> op, operands |-> operands, done |-> FALSE, out |-> Err(""),
     called |-> FALSE, emitted |-> <<>>]
NothingEvaluated == Evaluation("", <<>>)

Init ==
    /\ evaluated = NothingEvaluated
    \* no thread besides the caller's
    /\ threads = <<>>
    /\ \/ InitFor(NestStacks, NestFunctions, {Call(<<PyInt("1")>>, <<>>)})
       \/ InitFor({<<l>> : l \in MsgLayers}, MsgFunctions, MsgCalls)
       \/ InitFor(SinkStacks, SinkFunctions, {Call(<<PyInt("1")>>, <<>>)})
       \/ InitFor({<<l>> : l \in TraceLayers}, SinkFunctions, {Call(<<PyInt("1")>>, <<>>)})

(***************************************************************************)
(* The steps of one invocation.                                            *)
(***************************************************************************)
self(d) == stack[d]

(***************************************************************************)
(* The call stack and the traces.  A frame is the file of its code, the    *)
(* name of its function, its local variables and the moment of its call:   *)
(* <<phase, position>>, phase 0 for a frame entered on the way to the      *)
(* function, phase k for a frame the decorator k entered after its wrapped *)
(* call was over; the position is the depth of the frame in the stack.     *)
(* Only the locals of the caller's code are listed.                        *)
(***************************************************************************)
Frame(filename, name, locals) ==
    [filename |-> filename, name |-> name, locals |-> locals, called |-> <<0, 0>>]
Stamp(frames, phase, offset) ==
    [i \in DOMAIN frames |-> [frames[i] EXCEPT !.called = <<phase, offset + i>>]]
\* LoggingDecorator._internal_files: base.py and decorators.py register themselves
_internal_files == {"base.py", "decorators.py"}
_is_internal_file(filename) == filename \in _internal_files

\* the caller: module code calling a function that holds a Sensitive in a
\* local and calls the wrapped callable
CallerFrames ==
    <<Frame("test_generic.py", "<module>", <<>>),
      Frame("test_generic.py", "caller",
            <<[name |-> "token", val |-> Sensitive(Secret, <<"MASK">>)]>>)>>
\* the frames of one decorator on the way to what it wraps: devlog_wrapper,
\* the _devlog_executor of the variant, the _devlog_executor of WrapCallback
Entered(decorator) ==
    <<Frame("base.py", "devlog_wrapper", <<>>)>>
    \o (IF decorator.kind = "LoggingDecorator" THEN <<>>
        ELSE <<Frame("decorators.py", "_devlog_executor", <<>>)>>)
    \o <<Frame("base.py", "_devlog_executor", <<>>)>>
RECURSIVE Pos(_)
\* the depth of the stack where the frames of the decorator j begin (j = 0:
\* where the frame of the function is)
Pos(j) ==
    IF j = Len(stack) THEN Len(CallerFrames)
    ELSE Pos(j + 1) + Len(Entered(stack[j + 1]))
LayerFrames(j) == Stamp(Entered(stack[j]), 0, Pos(j))
_on_error_frame(j) == Stamp(<<Frame("decorators.py", "_on_error", <<>>)>>, j, Pos(j) + 2)
\* the frames an exception passes in the decorator j that lets it through; in
\* LogOnError it is raised again in _on_error, called from _devlog_executor
Passed(j) ==
    IF stack[j].kind = "LogOnError"
    THEN <<LayerFrames(j)[1], LayerFrames(j)[2]>> \o _on_error_frame(j)
         \o <<LayerFrames(j)[2], LayerFrames(j)[3]>>
    ELSE LayerFrames(j)
RECURSIVE PassedFrom(_, _)
PassedFrom(j, k) == IF j < k THEN <<>> ELSE Passed(j) \o PassedFrom(j - 1, k)
RECURSIVE EnteredFrom(_, _)
EnteredFrom(j, k) == IF j < k THEN <<>> ELSE LayerFrames(j) \o EnteredFrom(j - 1, k)

\* the frames of the decorator d while it logs: _do_logging is called by
\* _devlog_executor (before the wrapped call in LogOnStart, after it in
\* LogOnEnd) or by _on_error; inner names what _do_logging calls
LoggingFrames(d, inner) ==
    LET phase == IF stack[d].kind = "LogOnStart" THEN 0 ELSE d
        below ==
            (IF stack[d].kind = "LogOnError"
             THEN <<Frame("decorators.py", "_on_error", <<>>)>> ELSE <<>>)
            \o <<Frame("decorators.py", "_do_logging", <<>>)>>
            \o [i \in DOMAIN inner |-> Frame(inner[i][1], inner[i][2], <<>>)]
    IN Stamp(below, phase, Pos(d) + 2)
\* traceback.walk_stack(None) in get_stack_summary, reversed: the live stack,
\* oldest call first
walk_stack(d) ==
    Stamp(CallerFrames, 0, 0) \o EnteredFrom(Len(stack), d + 1)
    \o <<LayerFrames(d)[1], LayerFrames(d)[2]>>
    \o LoggingFrames(d, <<<<"base.py", "get_stack_summary">>>>)
\* StackSummary.extract(..., capture_locals=): the locals are kept as the
\* repr of their values
extract(frames, capture_locals) ==
    [i \in DOMAIN frames |->
        [frames[i] EXCEPT !.locals =
            IF capture_locals
            THEN [n \in DOMAIN @ |-> [name |-> @[n].name, text |-> repr(@[n].val)]]
            ELSE <<>>]]
\* the frames kept: all with include_decorator, else those of no internal file
Kept(frames, include_decorator) ==
    SelectSeq(frames, LAMBDA f : include_decorator \/ ~_is_internal_file(f.filename))
\* LoggingDecorator.get_stack_summary(include_decorator, capture_locals=)
get_stack_summary(d) ==
    Kept(extract(walk_stack(d), self(d).capture_locals), self(d).include_decorator)

\* the frames where the exception was raised: the function, or the decorator
\* k building its message (build_msg, and Signature.bind under bind_param
\* for a TypeError)
Origin(k, cls) ==
    IF k = 0
    THEN IF received.called
         THEN Stamp(<<Frame("test_generic.py", fn.name, <<>>)>>, 0, Pos(0))
         ELSE <<>>
    ELSE <<LayerFrames(k)[1], LayerFrames(k)[2]>>
         \o LoggingFrames(k, <<<<"base.py", "build_msg">>>>
                             \o (IF cls = "TypeError"
                                 THEN <<<<"base.py", "bind_param">>, <<"inspect.py", "bind">>,
                                        <<"inspect.py", "_bind">>>>
                                 ELSE <<>>))
\* TracebackException(*sys.exc_info()).stack in the decorator d that caught e:
\* from the try of its _devlog_executor down to the raise
full_traceback(d, e) ==
    <<LayerFrames(d)[2], LayerFrames(d)[3]>>
    \o PassedFrom(d - 1, exceptions[e].raised_in + 1)
    \o Origin(exceptions[e].raised_in, exceptions[e].cls)
\* LogOnError._do_logging: the stack summary, then the frames of the traceback
custom_traceback(d, e) ==
    get_stack_summary(d)
    \o Kept(extract(full_traceback(d, e), self(d).capture_locals), self(d).include_decorator)

\* "".join(stack.format()): one line per frame, one per local
RECURSIVE LocalsText(_)
LocalsText(locals) ==
    IF locals = <<>> THEN <<>>
    ELSE <<"    ", locals[1].name, " = ">> \o locals[1].text \o <<"\n">>
         \o LocalsText(Tail(locals))
RECURSIVE format(_)
format(frames) ==
    IF frames = <<>> THEN <<>>
    ELSE <<"  File ", frames[1].filename, ", in ", frames[1].name, "\n">>
         \o LocalsText(frames[1].locals) \o format(Tail(frames))

DEBUG == 10
\* a record of the log: the message of a decorator, with the frames of the
\* trace it carries (LogOnError formats them into the message)
Record(d, msg) ==
    [layer |-> d, kind |-> self(d).kind, level |-> self(d).log_level,
     msg |-> msg, invocation |-> invocation,
     frames |-> IF self(d).kind = "LogOnError"
                THEN custom_traceback(d, outcome.exc) ELSE <<>>]
\* the second record of LogOnStart / LogOnEnd._do_logging with trace_stack: the
\* stack summary, logged at DEBUG
log_trace_stack(d, records) ==
    IF self(d).trace_stack
    THEN Append(records,
                [layer |-> d, kind |-> "trace_stack", level |-> DEBUG,
                 msg |-> <<Segment("", format(get_stack_summary(d)))>>,
                 invocation |-> invocation, frames |-> get_stack_summary(d)])
    ELSE records
\* LoggingDecorator.log
log(d, msg) == Append(emitted, Record(d, msg))
\* a new exception instance; raised_in is where it was raised: the function
\* (0) or the decorator reached
NewException(cls) ==
    Append(exceptions, [cls |-> cls, reraised |-> FALSE, raised_in |-> depth])
\* the text of traceback.TracebackException(*sys.exc_info()).format()
TracebackText(e) == PyStr(<<"Traceback (most recent call last): ", exceptions[e].cls>>)

\* an exception raised in the decorator d itself leaves d for the decorator around it
RaiseFrom(d, cls) ==
    /\ exceptions' = NewException(cls)
    /\ outcome' = Raised(Len(exceptions) + 1)
    /\ pc' = "returning"
    /\ depth' = d + 1

\* the caller calls the wrapped callable: devlog_wrapper of the outermost decorator
Invoke ==
    /\ pc \in {"ready", "done"}
    /\ invocation < MaxInvocations
    /\ invocation' = invocation + 1
    /\ pc' = "calling"
    /\ depth' = Len(stack)
    /\ outcome' = NoOutcome
    /\ received' = NotCalled
    /\ raised' = 0
    /\ UNCHANGED <<stack, fn, args, kwargs, _logger, handlers, evaluated, threads, emitted, exceptions>>

\* Logger.addHandler(hdlr): a handler the logger already has is not added again
addHandler(name, hdlr) ==
    IF hdlr \in Range(handlers[name]) THEN handlers
    ELSE [handlers EXCEPT ![name] = Append(@, hdlr)]

\* LoggingDecorator.get_logger as it would be without its test of
\* self._logger: the logger is looked up on every call
get_logger_without_memo(d) ==
    /\ _logger' = [_logger EXCEPT ![d] = Some(ModuleOf(fn))]
    /\ handlers' = IF self(d).handler.given
                   THEN addHandler(ModuleOf(fn), self(d).handler.value)
                   ELSE handlers

\* LoggingDecorator.get_logger(fn)
get_logger(d) ==
    IF ~_logger[d].given
    THEN /\ _logger' = [_logger EXCEPT ![d] = Some(ModuleOf(fn))]
         /\ handlers' = IF self(d).handler.given
                        THEN addHandler(ModuleOf(fn), self(d).handler.value)
                        ELSE handlers
    ELSE UNCHANGED <<_logger, handlers>>

\* LogOnStart._do_logging
LogOnStart_do_logging(d) ==
    build_msg(self(d), fn, args, kwargs, (callable_format_variable :> PyFunction(fn.name)))

\* LogOnStart._devlog_executor as it would be without its first line: the
\* wrapped function is called and nothing is logged before
LogOnStart_calls_at_once ==
    /\ depth' = depth - 1
    /\ UNCHANGED <<pc, outcome, exceptions, emitted>>
    /\ UNCHANGED <<stack, fn, args, kwargs, _logger, handlers, evaluated, threads, received, raised, invocation>>

\* LogOnStart._devlog_executor, up to its call of the wrapped function
LogOnStart_before_call ==
    /\ get_logger(depth)
    /\ LET built == LogOnStart_do_logging(depth)
       IN IF built.ok
          THEN /\ emitted' = log_trace_stack(depth, log(depth, built.msg))
               /\ depth' = depth - 1
               /\ UNCHANGED <<pc, outcome, exceptions>>
          ELSE /\ RaiseFrom(depth, built.exc)
               /\ UNCHANGED emitted
    /\ UNCHANGED <<stack, fn, args, kwargs, evaluated, threads, received, raised, invocation>>
LogOnStart_devlog_executor ==
    /\ pc = "calling" /\ depth >= 1
    /\ ~fn.is_async
    /\ self(depth).kind = "LogOnStart"
    /\ LogOnStart_before_call

\* WrapCallback._devlog_executor, as the bare LoggingDecorator has it and as
\* LogOnEnd and LogOnError call it first: fn(*args, **kwargs) with the arguments
\* as they came
WrapCallback_devlog_executor ==
    /\ pc = "calling" /\ depth >= 1
    /\ ~fn.is_async
    /\ self(depth).kind \in {"LoggingDecorator", "LogOnEnd", "LogOnError"}
    /\ depth' = depth - 1
    /\ UNCHANGED <<stack, fn, args, kwargs, _logger, handlers, evaluated, threads, pc, outcome, received, raised, emitted,
                   exceptions, invocation>>

\* WrapCallback._async_devlog_executor, which no subclass overrides: await fn(*args, **kwargs)
WrapCallback_async_devlog_executor ==
    /\ pc = "calling" /\ depth >= 1
    /\ fn.is_async
    /\ depth' = depth - 1
    /\ UNCHANGED <<stack, fn, args, kwargs, _logger, handlers, evaluated, threads, pc, outcome, received, raised, emitted,
                   exceptions, invocation>>

\* the decorated function runs: the call binds the arguments (TypeError when they
\* do not fit), then the body returns or raises
FunctionBody ==
    CASE fn.body = "return_first" ->
             /\ outcome' = Returned(IF args # <<>> THEN args[1] ELSE PyNone)
             /\ UNCHANGED exceptions
      [] fn.body = "return_ok" ->
             /\ outcome' = Returned(PyStr(<<"ok">>))
             /\ UNCHANGED exceptions
      [] fn.body = "raise" ->
             /\ exceptions' = NewException(fn.raises)
             /\ outcome' = Raised(Len(exceptions) + 1)
      [] fn.body = "raise_stored" ->
             /\ outcome' = Raised(1)
             /\ UNCHANGED exceptions
CallFunction ==
    /\ pc = "calling" /\ depth = 0
    /\ pc' = "returning"
    /\ depth' = 1
    /\ IF BindFails(fn, args, kwargs)
       THEN /\ exceptions' = NewException("TypeError")
            /\ outcome' = Raised(Len(exceptions) + 1)
            /\ UNCHANGED received
       ELSE /\ received' = [called |-> TRUE, args |-> args, kwargs |-> kwargs]
            /\ FunctionBody
    /\ raised' = outcome'.exc
    /\ UNCHANGED <<stack, fn, args, kwargs, _logger, handlers, evaluated, threads, emitted, invocation>>

\* LogOnStart._devlog_executor, WrapCallback._devlog_executor and
\* WrapCallback._async_devlog_executor, after the call: the value is returned,
\* the exception is not caught
ReturnThrough ==
    /\ pc = "returning" /\ depth \in 1..Len(stack)
    /\ fn.is_async \/ self(depth).kind \in {"LogOnStart", "LoggingDecorator"}
    /\ depth' = depth + 1
    /\ UNCHANGED <<stack, fn, args, kwargs, _logger, handlers, evaluated, threads, pc, outcome, received, raised, emitted,
                   exceptions, invocation>>

\* LogOnEnd._do_logging
LogOnEnd_do_logging(d, result) ==
    build_msg(self(d), fn, args, kwargs,
              (result_format_variable :> result) @@ (callable_format_variable :> PyFunction(fn.name)))

\* LogOnEnd._devlog_executor as it would be without its last line: the
\* message is logged and the result is not returned
LogOnEnd_drops_result ==
    /\ IF outcome.kind = "exception"
       THEN /\ depth' = depth + 1
            /\ UNCHANGED <<pc, outcome, emitted, exceptions, _logger, handlers>>
       ELSE LET built == LogOnEnd_do_logging(depth, outcome.value)
            IN /\ get_logger(depth)
               /\ IF built.ok
                  THEN /\ emitted' = log_trace_stack(depth, log(depth, built.msg))
                       /\ depth' = depth + 1
                       /\ outcome' = Returned(PyNone)
                       /\ UNCHANGED <<pc, exceptions>>
                  ELSE /\ RaiseFrom(depth, built.exc)
                       /\ UNCHANGED emitted
    /\ UNCHANGED <<stack, fn, args, kwargs, evaluated, threads, received, raised, invocation>>

\* LogOnEnd._devlog_executor, after the call
LogOnEnd_after_call ==
    /\ IF outcome.kind = "exception"
       THEN /\ depth' = depth + 1
            /\ UNCHANGED <<pc, outcome, emitted, exceptions, _logger, handlers>>
       ELSE LET built == LogOnEnd_do_logging(depth, outcome.value)
            IN /\ get_logger(depth)
               /\ IF built.ok
                  THEN /\ emitted' = log_trace_stack(depth, log(depth, built.msg))
                       /\ depth' = depth + 1
                       /\ UNCHANGED <<pc, outcome, exceptions>>
                  ELSE /\ RaiseFrom(depth, built.exc)
                       /\ UNCHANGED emitted
    /\ UNCHANGED <<stack, fn, args, kwargs, evaluated, threads, received, raised, invocation>>
LogOnEnd_devlog_executor ==
    /\ pc = "returning" /\ depth \in 1..Len(stack)
    /\ ~fn.is_async
    /\ self(depth).kind = "LogOnEnd"
    /\ LogOnEnd_after_call

\* LogOnError._do_logging
LogOnError_do_logging(d, e) ==
    build_msg(self(d), fn, args, kwargs,
              (callable_format_variable :> PyFunction(fn.name))
              @@ (exception_format_variable :> TracebackText(e)))

\* the condition without the reraised marker: what _on_error would test if
\* it did not read the attribute
on_error_logs_without_marker(decorator, exception) ==
    issubclass(exception.cls, decorator.on_exceptions)
\* the condition without the filter: what _on_error would test if it did not
\* read on_exceptions
on_error_logs_without_filter(decorator, exception) ==
    ~exception.reraised

\* the condition of LogOnError._on_error: the class passes the filter and the
\* instance has no attribute reraised
on_error_logs(decorator, exception) ==
    issubclass(exception.cls, decorator.on_exceptions) /\ ~exception.reraised

\* exception.reraised = True
mark_reraised(e) == [exceptions EXCEPT ![e].reraised = TRUE]

\* the policy without the flag: what _on_error would do if it raised whatever
\* reraise says
reraise_always(decorator, current) == current

\* the policy with a value of its own for the suppressed call: what _on_error
\* would do if it returned a marker where it returns None
suppress_with_marker(decorator, current) ==
    IF decorator.reraise THEN current ELSE Returned(PyStr(<<"suppressed">>))

\* LogOnError._on_error after the condition and the logging: raise, or return None
reraise_or_suppress(decorator, current) ==
    IF decorator.reraise THEN current ELSE Returned(PyNone)

\* LogOnError._devlog_executor, after the call: the value is returned; an
\* exception goes to _on_error
LogOnError_after_call ==
    /\ IF outcome.kind = "value"
       THEN /\ depth' = depth + 1
            /\ UNCHANGED <<pc, outcome, emitted, exceptions, _logger, handlers>>
       ELSE IF on_error_logs(self(depth), exceptions[outcome.exc])
       THEN LET built == LogOnError_do_logging(depth, outcome.exc)
            IN /\ get_logger(depth)
               /\ IF built.ok
                  THEN /\ emitted' = log(depth, built.msg)
                       /\ exceptions' = mark_reraised(outcome.exc)
                       /\ outcome' = reraise_or_suppress(self(depth), outcome)
                       /\ depth' = depth + 1
                       /\ UNCHANGED pc
                  ELSE /\ RaiseFrom(depth, built.exc)
                       /\ UNCHANGED emitted
       ELSE /\ outcome' = reraise_or_suppress(self(depth), outcome)
            /\ depth' = depth + 1
            /\ UNCHANGED <<pc, emitted, exceptions, _logger, handlers>>
    /\ UNCHANGED <<stack, fn, args, kwargs, evaluated, threads, received, raised, invocation>>
LogOnError_devlog_executor ==
    /\ pc = "returning" /\ depth \in 1..Len(stack)
    /\ ~fn.is_async
    /\ self(depth).kind = "LogOnError"
    /\ LogOnError_after_call

\* the outermost devlog_wrapper returns to the caller, or raises into it
Complete ==
    /\ pc = "returning" /\ depth = Len(stack) + 1
    /\ pc' = "done"
    /\ UNCHANGED <<stack, fn, args, kwargs, _logger, handlers, evaluated, threads, depth, outcome, received, raised, emitted,
                   exceptions, invocation>>

Next ==
    \/ Invoke
    \/ LogOnStart_devlog_executor
    \/ WrapCallback_devlog_executor
    \/ WrapCallback_async_devlog_executor
    \/ CallFunction
    \/ ReturnThrough
    \/ LogOnEnd_devlog_executor
    \/ LogOnError_devlog_executor
    \/ Complete

Spec == Init /\ [][Next]_vars

(***************************************************************************)
(* The library called directly: format_value, the operators on a          *)
(* Sensitive, and a decorator applied without parentheses.  The caller     *)
(* picks the call, then evaluates it.                                      *)
(***************************************************************************)
\* the values, parameter names and deny-lists given to format_value
FormatValues ==
    {PyIntOf(5), PyStr(<<"s3">>), Sensitive(PyIntOf(5), <<"M">>), Sensitive(Secret, DefaultMask)}
FormatNames == {"", "a", "b"}
FormatDenyLists == {{}, {"b"}, {""}, {"a", "b"}}
\* the operands of the operators: two ints, a list, a function, and each of
\* them in a Sensitive
PlainOperands == {PyIntOf(2), PyIntOf(3), PyList(<<PyIntOf(2), PyIntOf(3)>>), PyFunction("g")}
Operands == PlainOperands \cup {Sensitive(x, DefaultMask) : x \in PlainOperands}
UnaryOperations == {"neg", "len", "iter", "hash", "call"}
BinaryOperations ==
    {"eq", "ne", "lt", "le", "gt", "ge", "add", "mul", "sub", "floordiv",
     "contains", "getitem"}

\* variant(fn, logger=L): the first positional parameter of __init__ is
\* log_level, so the instance holds the function as its log level
WithoutParentheses(decorator, f) == [decorator EXCEPT !.log_level = PyFunction(f.name)]
\* WrapCallback.__call__(self, fn): takes the one argument fn and returns the
\* wrapper of it; it calls nothing and logs nothing
WrapCallback_call(self_, a, kw) ==
    IF Len(a) + Len(kw) = 1 /\ KeysOf(kw) \subseteq {"fn"}
    THEN Ok(PyFunction("devlog_wrapper"))
    ELSE Err("TypeError")

LibraryCalls ==
    {Evaluation("format_value", <<v, n, d>>) :
        v \in FormatValues, n \in FormatNames, d \in FormatDenyLists}
    \cup {Evaluation(op, <<x, PyNone>>) : op \in UnaryOperations, x \in Operands}
    \cup {Evaluation(op, <<x, y>>) : op \in BinaryOperations, x \in Operands, y \in Operands}
    \cup {Evaluation("without_parentheses", <<WithoutParentheses(d, f), c>>) :
            d \in {LogOnStart(None(<<>>), TRUE, {}), LogOnEnd(None(<<>>), TRUE, {}),
                   LogOnError(None(<<>>), None({}), TRUE, TRUE, {})},
            f \in MsgFunctions, c \in MsgCalls}

LibraryInit ==
    /\ evaluated \in LibraryCalls
    \* no thread besides the caller's
    /\ threads = <<>>
    /\ InitFor({<<LogOnStart(None(<<>>), TRUE, {})>>},
               {Function("f", Params_ab, FALSE, "return_first", "")},
               {Call(<<PyInt("1")>>, <<>>)})

Evaluated(result) ==
    /\ ~evaluated.done
    /\ evaluated' = [evaluated EXCEPT !.done = TRUE, !.out = result]
    /\ UNCHANGED <<stack, fn, args, kwargs, pc, depth, outcome, received, raised, emitted,
                   exceptions, _logger, handlers, threads, invocation>>
Evaluate_format_value ==
    /\ evaluated.op = "format_value"
    /\ Evaluated(Ok(format_value(evaluated.operands[1], evaluated.operands[2],
                                 evaluated.operands[3])))
Evaluate_operation ==
    /\ evaluated.op \in UnaryOperations \cup BinaryOperations
    /\ Evaluated(Operation(evaluated.op, evaluated.operands[1], evaluated.operands[2]))
Evaluate_without_parentheses ==
    /\ evaluated.op = "without_parentheses"
    /\ Evaluated(WrapCallback_call(evaluated.operands[1], evaluated.operands[2].args,
                                   evaluated.operands[2].kwargs))

LibraryNext ==
    \/ Evaluate_format_value
    \/ Evaluate_operation
    \/ Evaluate_without_parentheses

LibrarySpec == LibraryInit /\ [][LibraryNext]_vars

(***************************************************************************)
(* Threads calling the wrapped callable at once.  One decorator is around  *)
(* the function; every thread runs devlog_wrapper on its own, and a thread *)
(* can be preempted between any two reads or writes of the decorator       *)
(* instance and of the logger.                                             *)
(***************************************************************************)
Threads == 1..MaxThreads
\* a thread: where it is, the logger get_logger returned to it, what its call gave
Thread(position, logger, result) == [pc |-> position, logger |-> logger, outcome |-> result]
At(t, position) == threads[t].pc = position

ThreadInit ==
    /\ evaluated = NothingEvaluated
    /\ threads = [t \in Threads |-> Thread("ready", None(""), NoOutcome)]
    /\ InitFor({<<l>> : l \in SinkLayers}, SinkFunctions, {Call(<<PyInt("1")>>, <<>>)})

\* devlog_wrapper calls _devlog_executor: LogOnStart logs first, LogOnEnd and
\* LogOnError call the function first
Thread_devlog_wrapper(t) ==
    /\ At(t, "ready")
    /\ threads' = [threads EXCEPT ![t].pc = IF self(1).kind = "LogOnStart"
                                            THEN "get_logger" ELSE "call"]
    /\ UNCHANGED <<stack, fn, args, kwargs, pc, depth, outcome, received, raised, emitted,
                   exceptions, _logger, handlers, evaluated, invocation>>

\* get_logger, 'if self._logger is None': the read of the field
Thread_get_logger_test(t) ==
    /\ At(t, "get_logger")
    /\ threads' = [threads EXCEPT ![t].pc = IF ~_logger[1].given THEN "assign" ELSE "return"]
    /\ UNCHANGED <<stack, fn, args, kwargs, pc, depth, outcome, received, raised, emitted,
                   exceptions, _logger, handlers, evaluated, invocation>>

\* get_logger, 'self._logger = logging.getLogger(fn.__module__)': the write of
\* the field; then the test of self._handler, which nothing writes
Thread_get_logger_assign(t) ==
    /\ At(t, "assign")
    /\ _logger' = [_logger EXCEPT ![1] = Some(ModuleOf(fn))]
    /\ threads' = [threads EXCEPT ![t].pc = IF self(1).handler.given
                                            THEN "addHandler" ELSE "return"]
    /\ UNCHANGED <<stack, fn, args, kwargs, pc, depth, outcome, received, raised, emitted,
                   exceptions, handlers, evaluated, invocation>>

\* get_logger, 'self._logger.addHandler(self._handler)': Logger.addHandler
\* tests and appends under the lock of the logging module
Thread_get_logger_addHandler(t) ==
    /\ At(t, "addHandler")
    /\ handlers' = addHandler(_logger[1].value, self(1).handler.value)
    /\ threads' = [threads EXCEPT ![t].pc = "return"]
    /\ UNCHANGED <<stack, fn, args, kwargs, pc, depth, outcome, received, raised, emitted,
                   exceptions, _logger, evaluated, invocation>>

\* get_logger, 'return self._logger'
Thread_get_logger_return(t) ==
    /\ At(t, "return")
    /\ threads' = [threads EXCEPT ![t].pc = "log", ![t].logger = _logger[1]]
    /\ UNCHANGED <<stack, fn, args, kwargs, pc, depth, outcome, received, raised, emitted,
                   exceptions, _logger, handlers, evaluated, invocation>>

\* the message a thread's _do_logging builds
Thread_build_msg(t) ==
    CASE self(1).kind = "LogOnStart" -> LogOnStart_do_logging(1)
      [] self(1).kind = "LogOnEnd" -> LogOnEnd_do_logging(1, threads[t].outcome.value)
      [] self(1).kind = "LogOnError" -> LogOnError_do_logging(1, threads[t].outcome.exc)
\* Logger.log: the record goes to the handlers the logger has at this moment
Delivered(t, msg) ==
    [layer |-> 1, kind |-> self(1).kind, level |-> self(1).log_level, msg |-> msg,
     thread |-> t, delivered |-> Range(handlers[threads[t].logger.value])]
\* the second record of LogOnStart / LogOnEnd._do_logging with trace_stack,
\* logged through the same logger
Thread_log_trace_stack(t, records) ==
    IF self(1).trace_stack /\ self(1).kind # "LogOnError"
    THEN Append(records,
                [layer |-> 1, kind |-> "trace_stack", level |-> DEBUG,
                 msg |-> log_trace_stack(1, <<>>)[1].msg,
                 thread |-> t, delivered |-> Range(handlers[threads[t].logger.value])])
    ELSE records
\* a thread raises out of the decorator itself
Thread_raise(t, cls) ==
    /\ exceptions' = NewException(cls)
    /\ threads' = [threads EXCEPT ![t].pc = "done", ![t].outcome = Raised(Len(exceptions) + 1)]
    /\ UNCHANGED emitted

\* _do_logging after get_logger: build_msg and self.log(logger, ...); then
\* LogOnStart calls the function, LogOnEnd returns the result, LogOnError
\* marks the exception and raises it again or returns None
Thread_do_logging(t) ==
    /\ At(t, "log")
    /\ LET built == Thread_build_msg(t)
       IN IF ~built.ok THEN Thread_raise(t, built.exc)
          ELSE /\ emitted' = Thread_log_trace_stack(t, Append(emitted, Delivered(t, built.msg)))
               /\ CASE self(1).kind = "LogOnStart" ->
                         /\ threads' = [threads EXCEPT ![t].pc = "call"]
                         /\ UNCHANGED exceptions
                    [] self(1).kind = "LogOnEnd" ->
                         /\ threads' = [threads EXCEPT ![t].pc = "done"]
                         /\ UNCHANGED exceptions
                    [] self(1).kind = "LogOnError" ->
                         /\ exceptions' = mark_reraised(threads[t].outcome.exc)
                         /\ threads' = [threads EXCEPT
                                ![t].pc = "done",
                                ![t].outcome = reraise_or_suppress(self(1), @)]
    /\ UNCHANGED <<stack, fn, args, kwargs, pc, depth, outcome, received, raised,
                   _logger, handlers, evaluated, invocation>>

\* what a thread does with what the function gave: LogOnStart hands it on,
\* LogOnEnd logs a value, LogOnError goes to _on_error with an exception and
\* logs it when the condition holds
Thread_after_call(kind, result, heap) ==
    CASE kind = "LogOnEnd" /\ result.kind = "value" -> Thread("get_logger", None(""), result)
      [] kind = "LogOnError" /\ result.kind = "exception" ->
             IF on_error_logs(self(1), heap[result.exc])
             THEN Thread("get_logger", None(""), result)
             ELSE Thread("done", None(""), reraise_or_suppress(self(1), result))
      [] OTHER -> Thread("done", None(""), result)

\* fn(*args, **kwargs) in a thread: the body returns, or raises a new instance
Thread_call(t) ==
    /\ At(t, "call")
    /\ LET raises == fn.body = "raise"
           heap == IF raises THEN NewException(fn.raises) ELSE exceptions
           result == IF raises THEN Raised(Len(heap)) ELSE Returned(ReturnOf(fn))
           after == Thread_after_call(self(1).kind, result, heap)
       IN /\ exceptions' = heap
          /\ threads' = [threads EXCEPT ![t] = [after EXCEPT !.logger = threads[t].logger]]
    /\ UNCHANGED <<stack, fn, args, kwargs, pc, depth, outcome, received, raised, emitted,
                   _logger, handlers, evaluated, invocation>>

ThreadNext ==
    \E t \in Threads :
        \/ Thread_devlog_wrapper(t)
        \/ Thread_get_logger_test(t)
        \/ Thread_get_logger_assign(t)
        \/ Thread_get_logger_addHandler(t)
        \/ Thread_get_logger_return(t)
        \/ Thread_do_logging(t)
        \/ Thread_call(t)

ThreadSpec == ThreadInit /\ [][ThreadNext]_vars

(***************************************************************************)
(* The claims.                                                             *)
(***************************************************************************)
\* the failure messages (those log_on_error emitted) of invocation n
FailureMessages(n) ==
    {i \in DOMAIN emitted : emitted[i].kind = "LogOnError" /\ emitted[i].invocation = n}
\* log_on_error with every option at its default
DefaultLogOnError == LogOnError(None(<<>>), None({}), TRUE, TRUE, {})
Synchronous == ~fn.is_async

\* C1: a sync function that raises a new exception instance, under N >= 2 nested
\* log_on_error decorators with the default filter and reraise enabled (the
\* decorators' other options at their defaults): when the invocation is over,
\* exactly one failure message was emitted in it, and the caller received the
\* raised instance as an exception.
C1_Case ==
    /\ Len(stack) >= 2
    /\ \A d \in DOMAIN stack : stack[d] = DefaultLogOnError
    /\ Synchronous
    /\ fn.body = "raise"
C1_LoggedOnce ==
    (pc = "done" /\ C1_Case) =>
        /\ Cardinality(FailureMessages(invocation)) = 1
        /\ raised # 0
        /\ outcome = Raised(raised)
C1_Witness ==
    /\ pc = "done" /\ C1_Case
    /\ Len(stack) >= 3
    /\ Cardinality(FailureMessages(invocation)) = 1
    /\ outcome.kind = "exception"

\* C2: in every instrumented call (any variant, sync or async) the wrapped
\* function is called with real values only: no positional or keyword argument
\* it receives is a Sensitive.
C2_TargetReceivesRealValues ==
    received.called => ~has_sensitive(received.args, received.kwargs)

\* the arguments of the caller's call: the position (0 for a keyword argument),
\* the keyword ("" for a positional argument) and the value
Supplied ==
    {[pos |-> i, key |-> "", val |-> args[i]] : i \in DOMAIN args}
    \cup {[pos |-> 0, key |-> kwargs[i].k, val |-> kwargs[i].val] : i \in DOMAIN kwargs}
\* the fields of a message that hold arguments
ArgumentFields == {"args", "kwargs"} \cup {fn.params[i].name : i \in DOMAIN fn.params}
NameOfKind(kind) ==
    fn.params[CHOOSE i \in DOMAIN fn.params : fn.params[i].kind = kind].name
\* the parameter that receives the argument a
ParameterOf(a) ==
    LET named == NamedParams(fn)
    IN IF a.pos > 0
       THEN IF a.pos <= Len(named) THEN named[a.pos].name ELSE NameOfKind("VAR_POSITIONAL")
       ELSE IF \E i \in DOMAIN named : named[i].name = a.key
            THEN a.key ELSE NameOfKind("VAR_KEYWORD")
\* the field of the decorator's message that holds the argument a
FieldOf(decorator, a) ==
    IF decorator.args_kwargs THEN (IF a.pos > 0 THEN "args" ELSE "kwargs")
    ELSE ParameterOf(a)
\* in the record r the argument a reads as the text shown, and the text of its
\* real value is in no argument field
ShownAs(r, a, shown, real) ==
    \A i \in DOMAIN r.msg :
        /\ r.msg[i].field \in ArgumentFields => Range(real) \cap Range(r.msg[i].text) = {}
        /\ r.msg[i].field = FieldOf(stack[r.layer], a) => Range(shown) \subseteq Range(r.msg[i].text)

\* C3: in a sync call under any variant and either binding mode, every emitted
\* message shows each top-level Sensitive argument as its mask in the field
\* that holds it, and no argument field holds the text of its real value.
C3_SensitiveArgumentMasked ==
    Synchronous =>
        \A i \in DOMAIN emitted : \A a \in Supplied :
            isSensitive(a.val) =>
                ShownAs(emitted[i], a, mask(a.val), str(real_value(a.val)))

OtherSecret == PyStr(<<"swordfish">>)
RECURSIVE WithOtherSecret(_)
\* the value x with the real value of every Sensitive in it replaced
WithOtherSecret(x) ==
    IF isSensitive(x) THEN Sensitive(OtherSecret, mask(x))
    ELSE [x EXCEPT !.items = [i \in DOMAIN x.items |-> WithOtherSecret(x.items[i])]]
\* the message the decorator of the record r builds in the call that differs
\* from this one in the real values of the Sensitives only; result is what the
\* function returned in this call
MessageOfOtherCall(r, result) ==
    LET other_args == [i \in DOMAIN args |-> WithOtherSecret(args[i])]
        other_kwargs == [i \in DOMAIN kwargs |->
                            [k |-> kwargs[i].k, val |-> WithOtherSecret(kwargs[i].val)]]
        extra == IF r.kind = "LogOnEnd"
                 THEN (result_format_variable :> WithOtherSecret(result))
                      @@ (callable_format_variable :> PyFunction(fn.name))
                 ELSE (callable_format_variable :> PyFunction(fn.name))
    IN build_msg(stack[r.layer], fn, other_args, other_kwargs, extra)

\* C4: the start and success messages of a call do not depend on the real
\* value a Sensitive holds: the call that differs only in those real values
\* (the function returning its first argument in both) emits the same text,
\* whether the Sensitive is an argument, is nested in a container argument, or
\* is returned and shown by the result field.
C4_NonInterference ==
    (Synchronous /\ Len(stack) = 1 /\ pc = "done" /\ outcome.kind = "value") =>
        \A i \in DOMAIN emitted :
            (emitted[i].kind \in {"LogOnStart", "LogOnEnd"}
             /\ emitted[i].invocation = invocation) =>
                LET other == MessageOfOtherCall(emitted[i], outcome.value)
                IN other.ok /\ Flatten(other.msg) = Flatten(emitted[i].msg)

\* C5: a value supplied, positionally or by keyword, for a parameter named in
\* sanitize_params reads as "***" in every emitted message, in either binding
\* mode, and no argument field holds its real text (stated for the values that
\* are not themselves a Sensitive).
C5_DenyListedParameterRedacted ==
    Synchronous =>
        \A i \in DOMAIN emitted : \A a \in Supplied :
            (/\ ~isSensitive(a.val)
             /\ \E j \in DOMAIN NamedParams(fn) : NamedParams(fn)[j].name = ParameterOf(a)
             /\ ParameterOf(a) \in stack[emitted[i].layer].sanitize_params) =>
                ShownAs(emitted[i], a, <<"***">>, str(a.val))

\* a sync log_on_error decorator holds an exception its wrapped call raised
CatchesException ==
    /\ pc = "returning" /\ depth \in 1..Len(stack)
    /\ Synchronous
    /\ self(depth).kind = "LogOnError"
    /\ outcome.kind = "exception"

\* C6: when a log_on_error wrapper catches an exception that is not an instance
\* of its exception kinds, its step emits no message and marks nothing, and the
\* wrapper still applies its policy: the same exception goes on when reraise is
\* true, None is returned when reraise is false.
C6_FilteredOutNotLogged ==
    [][(CatchesException
        /\ ~issubclass(exceptions[outcome.exc].cls, self(depth).on_exceptions)) =>
            /\ emitted' = emitted
            /\ exceptions' = exceptions
            /\ depth' = depth + 1
            /\ self(depth).reraise => outcome' = outcome
            /\ ~self(depth).reraise => outcome' = Returned(PyNone)]_vars
C6_Witness ==
    /\ pc = "done" /\ Synchronous
    /\ Len(stack) = 1 /\ stack[1].kind = "LogOnError"
    /\ stack[1].on_exceptions = {"ValueError"} /\ ~stack[1].reraise
    /\ raised # 0 /\ exceptions[raised].cls = "TypeError"
    /\ outcome = Returned(PyNone)
    /\ FailureMessages(invocation) = {}

\* C7: with reraise disabled, every invocation of a callable under one
\* log_on_error wrapper (its message the default one) whose function raises a
\* matching exception returns None to the caller, and exactly one failure
\* message is recorded for that invocation.
C7_SuppressedAndLoggedOnce ==
    (/\ pc = "done" /\ Synchronous
     /\ Len(stack) = 1 /\ stack[1].kind = "LogOnError" /\ ~stack[1].reraise
     /\ stack[1].message = LogOnError_default_message
     /\ stack[1].args_kwargs
     /\ raised # 0
     /\ issubclass(exceptions[raised].cls, stack[1].on_exceptions)) =>
        /\ outcome = Returned(PyNone)
        /\ Cardinality(FailureMessages(invocation)) = 1

\* a stack of log_on_error wrappers only, around a sync function that raises a
\* new exception instance
ErrorStack ==
    /\ \A d \in DOMAIN stack : stack[d].kind = "LogOnError"
    /\ Synchronous
    /\ fn.body = "raise"
\* every wrapper of the stack has the default message
DefaultMessages ==
    \A d \in DOMAIN stack : stack[d].message = LogOnError_default_message /\ stack[d].args_kwargs
Matches(d) == issubclass(fn.raises, stack[d].on_exceptions)
\* the function's exception comes to the wrapper d: every wrapper inside raised it again
ReachedBy(d) == \A j \in 1..(d - 1) : stack[j].reraise
\* the wrappers that emitted a failure message in this invocation
Emitters == {emitted[i].layer : i \in FailureMessages(invocation)}
InnermostMatching == {d \in DOMAIN stack : Matches(d) /\ \A j \in 1..(d - 1) : ~Matches(j)}

\* C8 as stated: in a stack of log_on_error wrappers with any filters and
\* reraise flags, exactly one wrapper emits a failure message, the innermost
\* whose filter matches the exception.
C8_ExactlyOneEmits ==
    (pc = "done" /\ ErrorStack /\ DefaultMessages) =>
        /\ Cardinality(FailureMessages(invocation)) = 1
        /\ Emitters = InnermostMatching

\* C8, as the code has it: at most one failure message is emitted in an invocation,
\* whatever the messages of the wrappers; with the default messages the
\* wrapper that emits is the innermost whose filter matches the exception,
\* when the exception comes to it (every wrapper inside it raised it again),
\* and no wrapper emits when no filter matches or when a wrapper inside
\* returned None first; the wrappers outside emit nothing and apply their
\* policy: the caller receives the raised instance when every wrapper has
\* reraise enabled, and None otherwise.
C8_AtMostOneEmits ==
    (pc = "done" /\ ErrorStack) =>
        /\ Cardinality(FailureMessages(invocation)) <= 1
        /\ DefaultMessages =>
            /\ Emitters = {d \in InnermostMatching : ReachedBy(d)}
            /\ outcome = IF ReachedBy(Len(stack) + 1) THEN Raised(raised)
                         ELSE Returned(PyNone)
C8_Witness ==
    /\ pc = "done" /\ ErrorStack /\ DefaultMessages
    /\ Len(stack) = 3
    /\ ~Matches(1) /\ stack[1].reraise
    /\ Matches(2) /\ ~stack[2].reraise
    /\ Matches(3)
    /\ Emitters = {2}
    /\ outcome = Returned(PyNone)

\* C9: when every log_on_error wrapper around a sync function has reraise
\* enabled and the function raised the exception instance e, the exception the
\* caller receives is that instance e, whatever the message template and the
\* binding mode, also when the arguments do not fit the signature.
C9_SameInstanceReachesCaller ==
    (/\ pc = "done" /\ Synchronous
     /\ \A d \in DOMAIN stack : stack[d].kind = "LogOnError" /\ stack[d].reraise
     /\ raised # 0) =>
        outcome = Raised(raised)

\* C10: an async function under a decorator of any variant goes through the
\* steps the sync function under the same decorator goes through: the start
\* message before the call, the success message after a value, the failure
\* message and the reraise policy after an exception, a cancellation included.
C10_AsyncParity ==
    [][(fn.is_async /\ depth \in 1..Len(stack)) =>
          /\ (pc = "calling" /\ self(depth).kind = "LogOnStart") => LogOnStart_before_call
          /\ (pc = "returning" /\ self(depth).kind = "LogOnEnd") => LogOnEnd_after_call
          /\ (pc = "returning" /\ self(depth).kind = "LogOnError") => LogOnError_after_call]_vars

\* the records the wrapper d emitted in this invocation
MessagesOf(d) ==
    {i \in DOMAIN emitted : emitted[i].layer = d /\ emitted[i].invocation = invocation}
\* the step appends one record, emitted by a wrapper of the kind given
Emits(kind) ==
    \E i \in DOMAIN emitted' : i > Len(emitted) /\ emitted'[i].kind = kind

\* C15: in every sync invocation, when the wrapped function is called every
\* log_on_start wrapper around it has emitted its start message; a success
\* message is emitted only in a step in which the log_on_end wrapper holds a
\* value its wrapped call returned, and the value goes on unchanged; when the
\* wrapped call raised, a log_on_start or log_on_end wrapper emits nothing
\* and hands the same exception on.
C15_StartEndProtocol ==
    [][Synchronous =>
          /\ (pc = "calling" /\ depth = 0) =>
                \A d \in DOMAIN stack :
                    stack[d].kind = "LogOnStart" =>
                        \E i \in MessagesOf(d) : emitted[i].kind = "LogOnStart"
          /\ Emits("LogOnEnd") =>
                /\ pc = "returning" /\ outcome.kind = "value"
                /\ self(depth).kind = "LogOnEnd"
                /\ outcome' = outcome
          /\ (/\ pc = "returning" /\ depth \in 1..Len(stack)
              /\ self(depth).kind \in {"LogOnStart", "LogOnEnd"}
              /\ outcome.kind = "exception") =>
                /\ emitted' = emitted
                /\ exceptions' = exceptions
                /\ outcome' = outcome
                /\ depth' = depth + 1]_vars
C15_Witness ==
    /\ pc = "done" /\ Synchronous
    /\ Len(stack) = 2
    /\ stack[1].kind = "LogOnEnd" /\ stack[2].kind = "LogOnStart"
    /\ fn.body = "raise" /\ raised # 0
    /\ outcome = Raised(raised)
    /\ Cardinality(MessagesOf(2)) = 1
    /\ MessagesOf(1) = {}

\* what the body of the function returns for the arguments of the call
TargetResult ==
    IF fn.body = "return_first" THEN (IF args # <<>> THEN args[1] ELSE PyNone)
    ELSE PyStr(<<"ok">>)
\* the wrapper d has the message and the binding mode of its defaults
DefaultConfigured(d) ==
    /\ stack[d].args_kwargs
    /\ stack[d].kind = "LogOnStart" => stack[d].message = LogOnStart_default_message
    /\ stack[d].kind = "LogOnEnd" => stack[d].message = LogOnEnd_default_message
    /\ stack[d].kind = "LogOnError" => stack[d].message = LogOnError_default_message

Plain(x) == ~isSensitive(x) /\ \A i \in DOMAIN x.items : ~isSensitive(x.items[i])
\* the record r comes from a wrapper in args_kwargs mode with a deny-list, for
\* a call with no Sensitive and no deny-listed keyword
FormattedNeedlessly(r) ==
    /\ stack[r.layer].args_kwargs
    /\ stack[r.layer].sanitize_params # {}
    /\ \A a \in Supplied : Plain(a.val) /\ a.key \notin stack[r.layer].sanitize_params

\* C11: in a sync call in args_kwargs mode with no Sensitive argument and no
\* deny-listed keyword, a wrapper with a non-empty sanitize_params renders the
\* {args} and {kwargs} fields as the text of the raw args tuple and kwargs
\* dict, which is what the wrapper without the deny-list renders.
C11_SanitizeLeavesTextUnchanged ==
    Synchronous =>
        \A i \in DOMAIN emitted :
            FormattedNeedlessly(emitted[i]) =>
                \A j \in DOMAIN emitted[i].msg :
                    /\ emitted[i].msg[j].field = "args" =>
                            emitted[i].msg[j].text = str(PyTuple(args))
                    /\ emitted[i].msg[j].field = "kwargs" =>
                            emitted[i].msg[j].text = str(PyDict(kwargs))

\* C20: a sync log_on_error wrapper whose on_exceptions is unset or the
\* empty tuple emits a failure message for every exception it catches that is
\* not yet marked as reported (and whose message can be built).
C20_EmptyFilterCatchesEverything ==
    [][(/\ CatchesException
        /\ self(depth).on_exceptions \in {{}, {"BaseException"}}
        /\ ~exceptions[outcome.exc].reraised
        /\ LogOnError_do_logging(depth, outcome.exc).ok) =>
            Emits("LogOnError")]_vars

\* C12: format_value(value, param_name, deny_list) returns the mask of a
\* Sensitive value (deny-listed name or not); otherwise "***" when param_name
\* is non-empty and in deny_list; otherwise the repr of the value.
C12_FormatValueRuleOrder ==
    (evaluated.op = "format_value" /\ evaluated.done) =>
        LET value == evaluated.operands[1]
            param_name == evaluated.operands[2]
            deny_list == evaluated.operands[3]
        IN evaluated.out =
              Ok(PyStr(IF isSensitive(value) THEN mask(value)
                       ELSE IF param_name # "" /\ param_name \in deny_list THEN <<"***">>
                       ELSE repr(value)))

\* C13: formatting a Sensitive(v, m) for a log message gives m; an operation
\* (equality, ordering, length, membership, indexing, iteration, arithmetic,
\* hashing, invocation) with a Sensitive as an operand, on either side, gives
\* the result or the error the operation gives on the real values.
C13_SensitiveIsTransparent ==
    evaluated.done =>
        LET x == evaluated.operands[1]
            y == evaluated.operands[2]
        IN /\ (evaluated.op = "format_value" /\ isSensitive(x)) =>
                    evaluated.out = Ok(PyStr(mask(x)))
           /\ (/\ evaluated.op \in UnaryOperations \cup BinaryOperations
               /\ isSensitive(x) \/ isSensitive(y)
               /\ ~(evaluated.op = "getitem" /\ isSensitive(y))) =>
                    evaluated.out =
                        Builtin(evaluated.op, unwrap_sensitive(x), unwrap_sensitive(y))

\* C19: a variant applied without parentheses, variant(fn, logger=L), gives a
\* callable that, called with the arguments of fn, runs fn and emits one
\* message.
C19_WithoutParentheses ==
    (evaluated.op = "without_parentheses" /\ evaluated.done) =>
        /\ evaluated.called
        /\ Len(evaluated.emitted) = 1

\* the number of times the handler is attached to the logger of that name
Attached(registry, name, hdlr) ==
    Cardinality({i \in DOMAIN registry[name] : registry[name][i] = hdlr})

\* C17: in every step, for every decorator of the stack: a logger once held
\* in _logger stays (so every later get_logger returns it, and a logger given
\* at construction is never replaced); a decorator that resolves its logger
\* gets the one named after the function's module; once a decorator built
\* with only a handler has resolved, that handler is attached to that logger
\* exactly once; and no configuration field of any decorator changes.
C17_SinkResolvedOnce ==
    [][/\ stack' = stack
       /\ \A d \in DOMAIN stack :
            /\ _logger[d].given => _logger'[d] = _logger[d]
            /\ stack[d].logger.given => _logger'[d] = stack[d].logger
            /\ (~_logger[d].given /\ _logger'[d].given) =>
                    _logger'[d] = Some(ModuleOf(fn))
            /\ (stack[d].handler.given /\ _logger'[d].given) =>
                    Attached(handlers', ModuleOf(fn), stack[d].handler.value) = 1]_vars
C17_Witness ==
    /\ pc = "done" /\ invocation = MaxInvocations
    /\ Len(stack) = 2
    /\ \A d \in DOMAIN stack :
            /\ ~stack[d].logger.given /\ stack[d].handler = Some("log_handler")
            /\ _logger[d] = Some(ModuleOf(fn))
            /\ Cardinality(MessagesOf(d)) >= 1
    /\ handlers[ModuleOf(fn)] = <<"log_handler">>

\* the records that carry a trace: the stack logged by log_on_start and
\* log_on_end, the stack and traceback in the message of log_on_error
Traces == {i \in DOMAIN emitted : emitted[i].kind \in {"trace_stack", "LogOnError"}}
\* the frame f was called no later than the frame g
NotLater(f, g) ==
    \/ f.called[1] < g.called[1]
    \/ f.called[1] = g.called[1] /\ f.called[2] <= g.called[2]

\* C14: a trace captured by a sync wrapper with include_decorator false holds
\* no frame of a file in _internal_files; with include_decorator true it
\* holds such frames; and its frames are listed oldest call first.
C14_TraceFiltersInternalFrames ==
    Synchronous =>
        \A i \in Traces :
            LET frames == emitted[i].frames
                internal == {n \in DOMAIN frames : _is_internal_file(frames[n].filename)}
            IN /\ ~stack[emitted[i].layer].include_decorator => internal = {}
               /\ stack[emitted[i].layer].include_decorator => internal # {}
               /\ \A m, n \in DOMAIN frames : m < n => NotLater(frames[m], frames[n])

\* C18: a trace captured by a sync wrapper with capture_locals, which holds
\* the caller's frame with a local bound to a Sensitive, reads in the log with
\* the mask of that Sensitive and without the text of its real value.
C18_TraceMasksSensitiveLocals ==
    Synchronous =>
        \A i \in Traces :
            stack[emitted[i].layer].capture_locals =>
                \A n \in DOMAIN CallerFrames : \A l \in DOMAIN CallerFrames[n].locals :
                    LET local == CallerFrames[n].locals[l].val
                        text == format(emitted[i].frames)
                    IN isSensitive(local) =>
                        /\ Range(mask(local)) \subseteq Range(text)
                        /\ Range(str(real_value(local))) \cap Range(text) = {}

\* the wrapper reached holds the function's exception and has reraise disabled
Suppressing ==
    /\ pc = "returning" /\ depth \in 1..Len(stack)
    /\ self(depth).kind = "LogOnError" /\ ~self(depth).reraise
    /\ raised # 0 /\ outcome = Raised(raised)
\* the function raised in this invocation and a wrapper inside the one reached
\* has turned the exception into a return
Suppressed ==
    /\ pc = "returning"
    /\ raised # 0 /\ outcome.kind = "value"
\* the record the log_on_end wrapper d emits for a call that returned None
SuccessRecordOfNone(d) == Record(d, LogOnEnd_do_logging(d, PyNone).msg)

\* C21: in a sync invocation, a log_on_error wrapper with reraise disabled that
\* holds the function's exception and does not itself fail hands None out as a
\* return; from there every wrapper outside holds a returned None and hands it
\* on unchanged, a log_on_end among them emits exactly the success record of a
\* call that returned None, every other wrapper (log_on_error, log_on_start,
\* the bare decorator) emits nothing, no exception instance is made or marked,
\* and the caller receives None.
C21_SuppressedLooksLikeNone ==
    [][Synchronous =>
          /\ (Suppressing /\ outcome'.kind = "value") =>
                /\ outcome' = Returned(PyNone)
                /\ depth' = depth + 1
          /\ (Suppressed /\ depth \in 1..Len(stack)) =>
                /\ outcome = Returned(PyNone)
                /\ outcome' = outcome
                /\ exceptions' = exceptions
                /\ depth' = depth + 1
                /\ emitted' = IF self(depth).kind = "LogOnEnd"
                              THEN Append(emitted, SuccessRecordOfNone(depth))
                              ELSE emitted
          /\ (Suppressed /\ depth = Len(stack) + 1) =>
                /\ pc' = "done"
                /\ outcome' = Returned(PyNone)
          /\ (pc = "done" /\ raised # 0 /\ outcome.kind = "value") =>
                outcome = Returned(PyNone)]_vars
C21_Witness ==
    /\ pc = "done" /\ Synchronous
    /\ Len(stack) = 3
    /\ stack[1].kind = "LogOnError" /\ ~stack[1].reraise
    /\ stack[2] = LogOnEnd(Some(Template_result), TRUE, {})
    /\ stack[3].kind = "LogOnError"
    /\ raised # 0
    /\ outcome = Returned(PyNone)
    /\ \E i \in MessagesOf(2) :
            /\ emitted[i] = SuccessRecordOfNone(2)
            /\ emitted[i].msg = <<Segment("", <<"r = ">>), Segment("result", <<"None">>)>>
    /\ Cardinality(MessagesOf(2)) = 1
    /\ MessagesOf(3) = {}

\* the number of times the handler hdlr is among the handlers of the logger name
TimesAttached(name, hdlr) ==
    Cardinality({k \in DOMAIN handlers[name] : handlers[name][k] = hdlr})
\* the decorator was built with a handler and no logger
HandlerOnly == self(1).handler.given /\ ~self(1).logger.given

\* C22: when the threads make the first invocations of a callable whose
\* decorator was built with a handler and no logger, under every interleaving
\* of their get_logger executions every message a thread logs is delivered to
\* that handler, the handler is never attached more than once, and it is
\* attached once when the threads are through and a message was logged.
C22_ConcurrentFirstCalls ==
    (threads # <<>> /\ HandlerOnly) =>
        /\ \A i \in DOMAIN emitted : self(1).handler.value \in emitted[i].delivered
        /\ TimesAttached(ModuleOf(fn), self(1).handler.value) <= 1
        /\ ((\A t \in Threads : At(t, "done")) /\ emitted # <<>>) =>
                TimesAttached(ModuleOf(fn), self(1).handler.value) = 1

====
